---- MODULE Spec2Model ----
(***************************************************************************)
(* Model of the task engine of p5-livesketch (src/lib/Task.js on top of    *)
(* src/lib/Callable.js).  A Task is a callable object; calling it runs     *)
(* Task.__call, which memoizes a promise.  The promise machinery of the    *)
(* platform (promise states, reaction lists, the FIFO job queue) is        *)
(* modelled explicitly, because the order and the moment of settlement is  *)
(* what the engine's guarantees are about.                                 *)
(*                                                                         *)
(* One action is one synchronous piece of JavaScript: a call made by the   *)
(* driver, a callback invoked by an executor, or one promise job.          *)
(***************************************************************************)
EXTENDS Integers, Sequences, FiniteSets, TLC

\* ---- bounds -------------------------------------------------------------
NumTasks == 3
MaxDeps == 2
MaxCalls == 2
\* the nested calls the call stack has room for; more than any acyclic graph
\* of NumTasks tasks needs
MaxStack == 4
\* the write calls made on the logger in one run
MaxWrites == 3

\* ---- program constants --------------------------------------------------
IDLE == 0
BUSY == 1
DONE == 2

\* JavaScript values that are not numbers, encoded as negative integers
Null == -1
Undefined == -2
NaN == -3

Tasks == 1..NumTasks
\* values an executor may pass to the completion callback
Values == {41, 42}
\* the error the executor of task t passes to the failure callback
ErrorOf(t) == 100 + t
Errors == {ErrorOf(t) : t \in Tasks}
\* the Error thrown by the `resolved` getter
NotResolvedYet == 99
\* "no promise": the null of _promise.  A promise is named by the task whose
\* code created it, the place that created it and a serial number:
\*   "new"   new Promise(this.resolver.bind(this))
\*   "all"   Promise.all(promises)
\*   "then"  Promise.all(promises).then(...)
NoPromise == <<0, "none", 0>>

\* executors the driver may supply:
\*   "default"  resolve => resolve()
\*   "failing"  calls the failure callback at once, as resolve:theme does
\*              when the theme is missing
\*   "free"     keeps the callbacks and calls them later, any number of times
\*   "plus1"    reads the resolved value of its first dependency and
\*              completes with that value plus one
FnKinds == {"default", "failing", "free", "plus1"}
\* executors of the driver that ask the user before they go on:
\*   "select"   resolve:sketch: suppress(true), a list prompt; the answer
\*              calls unsuppress() and completes with the chosen sketch
\*   "confirm"  clean:app: suppress(true), a yes/no prompt; the answer calls
\*              unsuppress() and then deletes (yes) or fails (no)
PromptFns == {"select", "confirm"}
\* an executor that invokes its own task when it runs for the first time:
\*   "reenter"  (resolve, reject) => { if (first) task() }
\* an executor that throws before it calls a callback:
\*   "throwing" (resolve, reject) => { throw error }

VARIABLES
    deps,       \* _deps of every task: a sequence of tasks
    fn,         \* _fn of every task: the kind of its executor
    state,      \* _state
    resolved,   \* _resolved
    promise,    \* _promise: NoPromise (null) or a promise
    heap,       \* the promises created so far, by name
    jobs,       \* the promise job queue (FIFO)
    cb,         \* the promise the callbacks handed to the executor settle
    execCount,  \* history: how many times the executor body was started
    returned,   \* history: the handles the invocations of a task returned
    calls,      \* history: the callback calls of each executor, in order
    preRej,     \* history: dependencies rejected when the first call returned
    rejOrder,   \* history: tasks in the order in which their handles rejected
    displayName,\* displayName of every task; NoTask while it is not created
    mode,       \* Logger: _mode
    buffers,    \* Logger: _buffers, the oldest record first
    console,    \* history: the records written to the console, in order
    written,    \* history: how many write calls were made on the logger
    run,        \* history: the routed writes made since suppress(true)
    prompt,     \* the interactive prompt a task's executor opened
    viaLogger   \* whether the Task module in use requires the Logger

\* the fields of the tasks that no method of Task assigns
static == <<fn, displayName, viaLogger>>
\* the tasks, the promises and their history
taskvars == <<deps, fn, state, resolved, promise, heap, jobs, cb, execCount,
              returned, calls, preRej, rejOrder, displayName, prompt,
              viaLogger>>
\* the logger and its history
logvars == <<mode, buffers, console, written, run>>

vars == <<deps, fn, state, resolved, promise, heap, jobs, cb, execCount,
          returned, calls, preRej, rejOrder, displayName, mode, buffers,
          console, written, run, prompt, viaLogger>>

\* ---- Logger -------------------------------------------------------------
NORMAL == 0
SILENT == 1
BUFFER == 2

\* the console methods the logger has a routed and a direct write for
Methods == {"log", "debug", "error", "warn"}

\* the logger as a value passed through the operators; `console` is the
\* history of what console[method](...args) was called with
Logger == [mode |-> mode, buffers |-> buffers, console |-> console]

SetLogger(L) ==
    /\ mode' = L.mode
    /\ buffers' = L.buffers
    /\ console' = L.console

\* { method: method, args: args }
Rec(method, args) == [method |-> method, args |-> args]

\* history: no run of routed writes after suppress(true) is under way
NoRun == [phase |-> "none", recs |-> <<>>]

\* new Logger(): NORMAL, nothing buffered; nothing written yet
LoggerInit ==
    /\ mode = NORMAL
    /\ buffers = <<>>
    /\ console = <<>>
    /\ written = 0
    /\ run = NoRun

isNormal(L) == L.mode = NORMAL
isSilent(L) == L.mode = SILENT
isBuffering(L) == L.mode = BUFFER
hasBuffer(L) == Len(L.buffers) > 0

clearBuffers(L) == [L EXCEPT !.buffers = <<>>]

\* mutant: a second suppress switches the suppression off again
suppressToggles(L, buffer) ==
    IF ~isNormal(L) THEN [L EXCEPT !.mode = NORMAL]
    ELSE [L EXCEPT !.mode = IF buffer THEN BUFFER ELSE SILENT]

suppress(L, buffer) == [L EXCEPT !.mode = IF buffer THEN BUFFER ELSE SILENT]

\* mutant: the direct write respects the mode
_doIfNormal(L, method, args) ==
    IF isNormal(L) THEN [L EXCEPT !.console = Append(@, Rec(method, args))]
    ELSE L

\* _do(method, ...args): console[method](...args)
_do(L, method, args) == [L EXCEPT !.console = Append(@, Rec(method, args))]

RECURSIVE DoEach(_, _)
\* mutant: the newest record is written first
DoEachNewestFirst(L, bufs) ==
    IF bufs = <<>> THEN L
    ELSE _do(DoEach(L, Tail(bufs)), Head(bufs).method, Head(bufs).args)

\* for (let buf of this._buffers) this._do(buf.method, ...buf.args)
DoEach(L, bufs) ==
    IF bufs = <<>> THEN L
    ELSE DoEach(_do(L, Head(bufs).method, Head(bufs).args), Tail(bufs))

\* mutant: flush goes back to NORMAL
flushResetsMode(L) ==
    IF ~hasBuffer(L) THEN [L |-> L, ret |-> "false"]
    ELSE [L |-> [clearBuffers(DoEach(L, L.buffers)) EXCEPT !.mode = NORMAL],
          ret |-> "this"]

\* mutant: flush leaves the records it wrote in the buffer
flushKeepsBuffers(L) ==
    IF ~hasBuffer(L) THEN [L |-> L, ret |-> "false"]
    ELSE [L |-> DoEach(L, L.buffers), ret |-> "this"]

\* flush(): the logger afterwards and what was returned (false or this)
flush(L) ==
    IF ~hasBuffer(L) THEN [L |-> L, ret |-> "false"]
    ELSE [L |-> clearBuffers(DoEach(L, L.buffers)), ret |-> "this"]

\* unsuppress(flush = true)
unsuppress(L, fl) ==
    LET L1 == [L EXCEPT !.mode = NORMAL]
    IN IF fl THEN flush(L1).L ELSE L1

\* mutant: a record is kept only while the logger is suppressed
bufferIfSuppressed(L, method, args) ==
    IF isNormal(L) THEN L
    ELSE [L EXCEPT !.buffers = Append(@, Rec(method, args))]

\* buffer(method, ...args)
buffer(L, method, args) == [L EXCEPT !.buffers = Append(@, Rec(method, args))]

\* mutant: shift for pop, the oldest record is taken
unbufferOldest(L) ==
    IF ~hasBuffer(L) THEN [L |-> L, ret |-> "false"]
    ELSE LET buf == Head(L.buffers)
         IN [L |-> _do([L EXCEPT !.buffers = Tail(@)], buf.method, buf.args),
             ret |-> "this"]

\* unbuffer(): pop the last record and write it
unbuffer(L) ==
    IF ~hasBuffer(L) THEN [L |-> L, ret |-> "false"]
    ELSE LET buf == L.buffers[Len(L.buffers)]
         IN [L |-> _do([L EXCEPT !.buffers = SubSeq(@, 1, Len(@) - 1)],
                       buf.method, buf.args),
             ret |-> "this"]

\* mutant: a write in SILENT mode is kept as in BUFFER mode
doKeepsSilent(L, method, args) ==
    IF isNormal(L) THEN _do(L, method, args)
    ELSE buffer(L, method, args)

\* do(method, ...args): the routed write
do(L, method, args) ==
    IF isNormal(L) THEN _do(L, method, args)
    ELSE IF isBuffering(L) THEN buffer(L, method, args)
    ELSE L

log(L, args) == do(L, "log", args)
_log(L, args) == _do(L, "log", args)
debug(L, args) == do(L, "debug", args)
_debug(L, args) == _do(L, "debug", args)
error(L, args) == do(L, "error", args)
_error(L, args) == _do(L, "error", args)
warn(L, args) == do(L, "warn", args)
_warn(L, args) == _do(L, "warn", args)

\* the routed write that has the method tag m
routed(L, m, args) ==
    CASE m = "log" -> log(L, args)
      [] m = "debug" -> debug(L, args)
      [] m = "error" -> error(L, args)
      [] m = "warn" -> warn(L, args)

\* the direct write that has the method tag m
direct(L, m, args) ==
    CASE m = "log" -> _log(L, args)
      [] m = "debug" -> _debug(L, args)
      [] m = "error" -> _error(L, args)
      [] m = "warn" -> _warn(L, args)

\* ---- the mutable part of the state, passed through the operators --------
World ==
    [deps |-> deps, state |-> state, resolved |-> resolved,
     promise |-> promise, heap |-> heap, jobs |-> jobs, cb |-> cb,
     execCount |-> execCount, returned |-> returned, calls |-> calls,
     preRej |-> preRej, rejOrder |-> rejOrder, prompt |-> prompt,
     L |-> Logger, depth |-> 0, thrown |-> FALSE]

SetWorld(w) ==
    /\ deps' = w.deps
    /\ state' = w.state
    /\ resolved' = w.resolved
    /\ promise' = w.promise
    /\ heap' = w.heap
    /\ jobs' = w.jobs
    /\ cb' = w.cb
    /\ execCount' = w.execCount
    /\ returned' = w.returned
    /\ calls' = w.calls
    /\ preRej' = w.preRej
    /\ rejOrder' = w.rejOrder
    /\ prompt' = w.prompt

\* the same, with what the step wrote to the console and did to the logger
SetWorldL(w) ==
    /\ SetWorld(w)
    /\ SetLogger(w.L)

\* ---- promises -----------------------------------------------------------
\* the name of the next promise task t creates at `site`
NextId(w, t, site) ==
    <<t, site, 1 + Cardinality({i \in DOMAIN w.heap : i[1] = t /\ i[2] = site})>>

\* a new pending promise p; `rem` is the element count of a Promise.all
NewPromise(w, p, rem) ==
    [w EXCEPT !.heap = @ @@ (p :> [st |-> "pending", val |-> Undefined,
                                   remaining |-> rem, reactions |-> <<>>])]

Reaction(kind, task, target) == [kind |-> kind, task |-> task, target |-> target]

ReactionJob(r, st, val) ==
    [kind |-> "reaction", reaction |-> r, st |-> st, val |-> val,
     thenable |-> NoPromise]

\* the job that makes promise `target` follow the promise `thenable`
ThenableJob(target, thenable) ==
    [kind |-> "thenable", reaction |-> Reaction("follow", 0, target),
     st |-> "pending", val |-> Undefined, thenable |-> thenable]

\* history: the promise p, rejected just now, is (or is about to become) the
\* handle of the task that created it
NoteReject(w, p, st) ==
    IF st = "rejected" /\ p[2] = (IF w.deps[p[1]] = <<>> THEN "new" ELSE "then")
    THEN [w EXCEPT !.rejOrder = Append(@, p[1])]
    ELSE w

\* resolve / reject of a promise with a value that is not a thenable:
\* a no-op on a settled promise, else the reactions become jobs, in order
Settle(w, p, st, val) ==
    IF w.heap[p].st # "pending" THEN w
    ELSE LET rs == w.heap[p].reactions
             js == [i \in 1..Len(rs) |-> ReactionJob(rs[i], st, val)]
         IN NoteReject([w EXCEPT !.heap[p] = [@ EXCEPT !.st = st, !.val = val,
                                                      !.reactions = <<>>],
                                 !.jobs = @ \o js], p, st)

\* promise.then: registered while pending, a job at once when settled
Then(w, p, r) ==
    IF w.heap[p].st = "pending"
    THEN [w EXCEPT !.heap[p].reactions = Append(@, r)]
    ELSE [w EXCEPT !.jobs = Append(@, ReactionJob(r, w.heap[p].st, w.heap[p].val))]

RECURSIVE ThenEach(_, _, _)
\* the loop of Promise.all: element.then(resolveElement, reject), in order
ThenEach(w, ps, a) ==
    IF ps = <<>> THEN w
    ELSE ThenEach(Then(w, Head(ps), Reaction("allElem", 0, a)), Tail(ps), a)

\* mutant: the join waits for the first promise of the list only
PromiseAllFirstOnly(w, ps, a) == ThenEach(NewPromise(w, a, 1), <<Head(ps)>>, a)

\* Promise.all(ps), creating the promise a
PromiseAll(w, ps, a) == ThenEach(NewPromise(w, a, Len(ps)), ps, a)

\* ---- Task ---------------------------------------------------------------
\* the status lines of a task, by the place that writes them
Resolving == 1
AllResolved == 2
Running == 3
Resolved == 4
\* the text of a status line: it names the task and says which line it is
StatusLine(t, k) == 10 * t + k

\* a status line of t: console.log(line), or logger.log(line) in the
\* revision of the module that requires the Logger
statusLog(w, t, k) ==
    [w EXCEPT !.L = IF viaLogger THEN log(@, StatusLine(t, k))
                    ELSE _do(@, "log", StatusLine(t, k))]

hasDep(w, t) == Len(w.deps[t]) > 0
isIdle(w, t) == w.state[t] = IDLE
isDone(w, t) == w.state[t] = DONE
isBusy(w, t) == w.state[t] = BUSY

\* mutant: the getter returns nothing
resolvedGetNoValue(w, t) ==
    IF ~isDone(w, t) THEN [threw |-> TRUE, val |-> NotResolvedYet]
    ELSE [threw |-> FALSE, val |-> Undefined]

\* get resolved(): the value, or the error thrown
resolvedGet(w, t) ==
    IF ~isDone(w, t) THEN [threw |-> TRUE, val |-> NotResolvedYet]
    ELSE [threw |-> FALSE, val |-> w.resolved[t]]

NoteCall(w, t, k, v) == [w EXCEPT !.calls[t] = Append(@, [k |-> k, v |-> v])]

\* mutant: the completion callback does not store its argument
resolveCbNoStore(w, t, p, arg) ==
    Settle([w EXCEPT !.state[t] = DONE], p, "fulfilled", arg)

\* _resolve, the completion callback handed to the executor
\* mutant: the failure of a task cancels its dependencies: the completion
\* callback of a dependency of a task whose handle is rejected does nothing
resolveCbCancelled(w, t, p, arg) ==
    IF \E P \in Tasks :
          /\ \E i \in 1..Len(w.deps[P]) : w.deps[P][i] = t
          /\ w.promise[P] # NoPromise
          /\ w.heap[w.promise[P]].st = "rejected"
    THEN w
    ELSE Settle([w EXCEPT !.state[t] = DONE, !.resolved[t] = arg],
                p, "fulfilled", arg)

resolveCb(w, t, p, arg) ==
    Settle([statusLog(w, t, Resolved) EXCEPT !.state[t] = DONE,
                                              !.resolved[t] = arg],
           p, "fulfilled", arg)

\* mutant: a failure ends the task like a completion does
rejectCbMarksDone(w, t, p, err) ==
    Settle([w EXCEPT !.state[t] = DONE], p, "rejected", err)

\* reject, the failure callback handed to the executor
rejectCb(w, t, p, err) == Settle(w, p, "rejected", err)

Plus1(v) == IF v = Undefined \/ v = NaN THEN NaN ELSE IF v = Null THEN 1 ELSE v + 1

\* mutant: the default executor completes with a value
RunFnDefaultValue(w, t, p) ==
    CASE fn[t] = "default" ->
            resolveCb(NoteCall(w, t, "complete", 41), t, p, 41)
      [] fn[t] = "failing" ->
            rejectCb(NoteCall(w, t, "fail", ErrorOf(t)), t, p, ErrorOf(t))
      [] fn[t] = "free" -> w
      [] fn[t] = "plus1" ->
            LET r == resolvedGet(w, Head(w.deps[t]))
            IN IF r.threw THEN Settle(w, p, "rejected", r.val)
               ELSE resolveCb(NoteCall(w, t, "complete", Plus1(r.val)), t, p, Plus1(r.val))

\* mutant: an error thrown by the executor leaves `new Promise` uncaught
executorThrewUncaught(w, p, e) == [w EXCEPT !.thrown = TRUE]

\* new Promise(executor) when the executor throws e: the promise is
\* rejected with e (if it is still pending) and the constructor returns
executorThrew(w, p, e) == Settle(w, p, "rejected", e)

RECURSIVE call(_, _)
\* this._fn(_resolve, reject): the synchronous part of the executor
RunFn(w, t, p) ==
    CASE fn[t] = "default" ->
            resolveCb(NoteCall(w, t, "complete", Undefined), t, p, Undefined)
      [] fn[t] = "failing" ->
            rejectCb(NoteCall(w, t, "fail", ErrorOf(t)), t, p, ErrorOf(t))
      [] fn[t] = "free" -> w
      [] fn[t] = "plus1" ->
            LET r == resolvedGet(w, Head(w.deps[t]))
            IN IF r.threw THEN Settle(w, p, "rejected", r.val)
               ELSE resolveCb(NoteCall(w, t, "complete", Plus1(r.val)), t, p, Plus1(r.val))
      [] fn[t] \in PromptFns ->
            [w EXCEPT !.L = suppress(@, TRUE), !.prompt[t] = "open"]
      [] fn[t] = "reenter" ->
            IF w.execCount[t] = 1 THEN call(w, t).w ELSE w
      [] fn[t] = "throwing" -> executorThrew(w, p, ErrorOf(t))

\* mutant: the "running" line is written when the executor has returned
resolverRunsFirst(w, t, p) ==
    statusLog(RunFn([w EXCEPT !.execCount[t] = @ + 1, !.cb[t] = p], t, p),
              t, Running)

\* resolver(resolve, reject), run by `new Promise` for the promise p
resolver(w, t, p) ==
    RunFn(statusLog([w EXCEPT !.execCount[t] = @ + 1, !.cb[t] = p], t, Running),
          t, p)

\* history: the dependencies whose handle is rejected, in declaration order
RejectedDeps(w, t) ==
    SelectSeq(w.deps[t], LAMBDA d : w.heap[w.promise[d]].st = "rejected")

RECURSIVE CallDeps(_, _, _)
\* mutant: the promises are collected in reverse (unshift for push)
CallDepsUnshift(w, ds, acc) ==
    IF ds = <<>> THEN [w |-> w, ret |-> acc]
    ELSE LET r == call(w, Head(ds))
         IN CallDeps(r.w, Tail(ds), <<r.ret>> \o acc)

\* mutant: the loop runs from the last dependency to the first
CallDepsLastFirst(w, ds, acc) ==
    IF ds = <<>> THEN [w |-> w, ret |-> acc]
    ELSE LET r == call(w, ds[Len(ds)])
         IN IF r.w.thrown THEN [w |-> r.w, ret |-> acc]
            ELSE CallDeps(r.w, SubSeq(ds, 1, Len(ds) - 1), <<r.ret>> \o acc)

\* for (let dep of this._deps) promises.push(dep()); an error thrown by a
\* call ends the loop
CallDeps(w, ds, acc) ==
    IF ds = <<>> THEN [w |-> w, ret |-> acc]
    ELSE LET r == call(w, Head(ds))
         IN IF r.w.thrown THEN [w |-> r.w, ret |-> acc]
            ELSE CallDeps(r.w, Tail(ds), Append(acc, r.ret))

\* mutant: the executor is started without waiting for the dependencies
startNoWait(w, t) ==
    LET w1 == [w EXCEPT !.state[t] = BUSY]
        r == CallDeps(w1, w1.deps[t], <<>>)
        p == NextId(r.w, t, "new")
        w2 == resolver(NewPromise(r.w, p, 0), t, p)
    IN [w |-> [w2 EXCEPT !.promise[t] = p], ret |-> p]

\* mutant: the _promise is in place before the dependencies are called
startAssignsFirst(w, t) ==
    LET w1 == [w EXCEPT !.state[t] = BUSY]
    IN IF hasDep(w1, t)
       THEN LET d == NextId(w1, t, "then")
                w0 == [NewPromise(w1, d, 0) EXCEPT !.promise[t] = d]
                r == CallDeps(w0, w0.deps[t], <<>>)
                a == NextId(r.w, t, "all")
                w2 == PromiseAll(r.w, r.ret, a)
                w3 == Then(w2, a, Reaction("thenCb", t, d))
            IN IF r.w.thrown THEN [w |-> r.w, ret |-> NoPromise]
               ELSE [w |-> [w3 EXCEPT !.preRej[t] = RejectedDeps(w3, t)],
                     ret |-> d]
       ELSE LET p == NextId(w1, t, "new")
                w2 == resolver(NewPromise(w1, p, 0), t, p)
            IN [w |-> [w2 EXCEPT !.promise[t] = p], ret |-> p]

\* mutant: the loop takes the dependencies off the list as it calls them
startDrainsDeps(w, t) ==
    LET w1 == [w EXCEPT !.state[t] = BUSY]
    IN IF hasDep(w1, t)
       THEN LET r == CallDeps(statusLog(w1, t, Resolving), w1.deps[t], <<>>)
                a == NextId(r.w, t, "all")
                w2 == PromiseAll(r.w, r.ret, a)
                d == NextId(w2, t, "then")
                w3 == Then(NewPromise(w2, d, 0), a, Reaction("thenCb", t, d))
            IN IF r.w.thrown THEN [w |-> r.w, ret |-> NoPromise]
               ELSE [w |-> [w3 EXCEPT !.promise[t] = d,
                                      !.preRej[t] = RejectedDeps(w3, t),
                                      !.deps[t] = <<>>],
                     ret |-> d]
       ELSE LET p == NextId(w1, t, "new")
                w2 == resolver(NewPromise(w1, p, 0), t, p)
            IN [w |-> [w2 EXCEPT !.promise[t] = p], ret |-> p]

\* Task.__call when there is no _promise yet: the first invocation.  The
\* _promise is assigned after the loop over the dependencies; an error
\* thrown in the loop leaves it unassigned.
start(w, t) ==
    LET w1 == [w EXCEPT !.state[t] = BUSY]
    IN IF hasDep(w1, t)
       THEN LET r == CallDeps(statusLog(w1, t, Resolving), w1.deps[t], <<>>)
                a == NextId(r.w, t, "all")
                w2 == PromiseAll(r.w, r.ret, a)
                d == NextId(w2, t, "then")
                w3 == Then(NewPromise(w2, d, 0), a, Reaction("thenCb", t, d))
            IN IF r.w.thrown THEN [w |-> r.w, ret |-> NoPromise]
               ELSE [w |-> [w3 EXCEPT !.promise[t] = d,
                                      !.preRej[t] = RejectedDeps(w3, t)],
                     ret |-> d]
       ELSE LET p == NextId(w1, t, "new")
                w2 == resolver(NewPromise(w1, p, 0), t, p)
            IN [w |-> [w2 EXCEPT !.promise[t] = p], ret |-> p]

\* mutant: no memoization, every invocation starts the task
callBodyNoMemo(w, t) == start(w, t)

\* mutant: the state is set before the memoized promise is looked at
callBodyBusyFirst(w, t) ==
    IF w.promise[t] # NoPromise
    THEN [w |-> [w EXCEPT !.state[t] = BUSY], ret |-> w.promise[t]]
    ELSE start(w, t)

\* Task.__call, reached through Callable by calling the task object
callBody(w, t) ==
    IF w.promise[t] # NoPromise THEN [w |-> w, ret |-> w.promise[t]]
    ELSE start(w, t)

\* the arguments the hook receives when the object is called with argList:
\* the rest parameter ...args collects them, __call(...args) spreads them
forwarded(argList) == [i \in 1..Len(argList) |-> argList[i]]

\* mutant: the hook of Callable itself is called, which does nothing
callBaseHook(w, t) == [w |-> w, ret |-> NoPromise]

\* a call of the task object: Callable forwards it to __call.  A call that
\* finds the stack full throws (RangeError), and so does every call it is
\* nested in; a call that returns adds its handle to the history.
call(w, t) ==
    IF w.depth >= MaxStack THEN [w |-> [w EXCEPT !.thrown = TRUE], ret |-> NoPromise]
    ELSE LET r == callBody([w EXCEPT !.depth = @ + 1], t)
         IN IF r.w.thrown
            THEN [w |-> [r.w EXCEPT !.depth = w.depth], ret |-> NoPromise]
            ELSE [w |-> [r.w EXCEPT !.returned[t] = @ \cup {r.ret},
                                    !.depth = w.depth],
                  ret |-> r.ret]

\* mutant: addDep without the state check
addDepNoGuard(w, t, d) ==
    [w |-> [w EXCEPT !.deps[t] = Append(@, d)], threw |-> FALSE]

\* mutant: only a task that is DONE refuses a new dependency
addDepGuardsDone(w, t, d) ==
    IF isDone(w, t) THEN [w |-> w, threw |-> TRUE]
    ELSE [w |-> [w EXCEPT !.deps[t] = Append(@, d)], threw |-> FALSE]

\* addDep(dep): the new world and whether it threw
addDep(w, t, d) ==
    IF ~isIdle(w, t) THEN [w |-> w, threw |-> TRUE]
    ELSE [w |-> [w EXCEPT !.deps[t] = Append(@, d)], threw |-> FALSE]

\* ---- promise jobs -------------------------------------------------------
\* mutant: the callback runs on rejection as well (then(f, f))
ThenCbOnReject(w, j) ==
    LET t == j.reaction.task
        d == j.reaction.target
        p == NextId(w, t, "new")
        w1 == resolver(NewPromise(w, p, 0), t, p)
    IN [w1 EXCEPT !.jobs = Append(@, ThenableJob(d, p))]

\* the callback of Promise.all(promises).then(...), with promise d derived
ThenCb(w, j) ==
    LET t == j.reaction.task
        d == j.reaction.target
    IN IF j.st = "rejected" THEN Settle(w, d, "rejected", j.val)
       ELSE LET p == NextId(w, t, "new")
                w1 == resolver(NewPromise(statusLog(w, t, AllResolved), p, 0), t, p)
            IN [w1 EXCEPT !.jobs = Append(@, ThenableJob(d, p))]

\* mutant: the join never counts its elements down
AllElemNoCount(w, j) ==
    LET a == j.reaction.target
    IN IF j.st = "rejected" THEN Settle(w, a, "rejected", j.val) ELSE w

\* mutant: the join rejects with a new error that wraps the dependency's
AllElemWrapsError(w, j) ==
    LET a == j.reaction.target
    IN IF j.st = "rejected" THEN Settle(w, a, "rejected", j.val + 1000)
       ELSE LET w1 == [w EXCEPT !.heap[a].remaining = @ - 1]
            IN IF w1.heap[a].remaining = 0
               THEN Settle(w1, a, "fulfilled", Undefined)
               ELSE w1

\* resolveElement / reject of Promise.all
AllElem(w, j) ==
    LET a == j.reaction.target
    IN IF j.st = "rejected" THEN Settle(w, a, "rejected", j.val)
       ELSE LET w1 == [w EXCEPT !.heap[a].remaining = @ - 1]
            IN IF w1.heap[a].remaining = 0
               THEN Settle(w1, a, "fulfilled", Undefined)
               ELSE w1

RunJob(w, j) ==
    CASE j.kind = "thenable" ->
            Then(w, j.thenable, j.reaction)
      [] j.kind = "reaction" /\ j.reaction.kind = "allElem" -> AllElem(w, j)
      [] j.kind = "reaction" /\ j.reaction.kind = "thenCb" -> ThenCb(w, j)
      [] j.kind = "reaction" /\ j.reaction.kind = "follow" ->
            Settle(w, j.reaction.target, j.st, j.val)

\* ---- creation of a task ------------------------------------------------
\* the names the driver may pass; the empty string is one of them
Names == {"", "build"}
\* displayName of a task that has not been created
NoTask == "(no task)"
\* the executors the driver passes explicitly when creating tasks one by one:
\* they keep their callbacks and complete or fail at a moment of their choice
GivenFns == {"free"}

\* an argument of the constructor after the name: a function or an array
FnArg(k) == [type |-> "function", fn |-> k, deps |-> <<>>]
ArrArg(ds) == [type |-> "array", fn |-> "none", deps |-> ds]

\* flexParams: args fit the pattern { first, second:[type, default] }
Fits(args, first, second) ==
    /\ Len(args) \in {1, 2}
    /\ args[1].type = first
    /\ Len(args) = 2 => args[2].type = second

\* constructor(name, ...args): the fields of the new task.  The name is
\* stored as it is given; flexParams takes (fn), (fn, deps), (deps) or
\* (deps, fn) and fills in the default of what is left out.
construct(name, args) ==
    IF Fits(args, "function", "array")
    THEN [displayName |-> name, fn |-> args[1].fn,
          deps |-> IF Len(args) = 2 THEN args[2].deps ELSE <<>>]
    ELSE [displayName |-> name,
          fn |-> IF Len(args) = 2 THEN args[2].fn ELSE "default",
          deps |-> args[1].deps]

\* ---- initial state ------------------------------------------------------
\* sequences without repetition over S, of length at most n
RECURSIVE SeqsUpTo(_, _)
SeqsUpTo(S, n) ==
    IF n = 0 THEN {<<>>}
    ELSE LET shorter == SeqsUpTo(S, n - 1)
         IN shorter \cup {Append(s, x) : s \in shorter, x \in S}

NoRepeat(s) == \A i, k \in 1..Len(s) : i # k => s[i] # s[k]

\* new Task(name, fn, deps): the graphs are acyclic, a task depends only on
\* tasks created before it
Init ==
    /\ deps \in [Tasks -> SeqsUpTo(Tasks, MaxDeps)]
    /\ \A t \in Tasks : NoRepeat(deps[t]) /\ \A i \in 1..Len(deps[t]) : deps[t][i] < t
    /\ fn \in [Tasks -> FnKinds]
    /\ \A t \in Tasks : fn[t] = "plus1" => deps[t] # <<>>
    /\ state = [t \in Tasks |-> IDLE]
    /\ resolved = [t \in Tasks |-> Null]
    /\ promise = [t \in Tasks |-> NoPromise]
    /\ heap = <<>>
    /\ jobs = <<>>
    /\ cb = [t \in Tasks |-> NoPromise]
    /\ execCount = [t \in Tasks |-> 0]
    /\ returned = [t \in Tasks |-> {}]
    /\ calls = [t \in Tasks |-> <<>>]
    /\ preRej = [t \in Tasks |-> <<>>]
    /\ rejOrder = <<>>
    /\ displayName = [t \in Tasks |-> "build"]
    /\ prompt = [t \in Tasks |-> "none"]
    /\ viaLogger = FALSE
    /\ LoggerInit

\* ---- actions ------------------------------------------------------------
\* the driver (or any code outside the executors) calls the task t
Invoke(t) ==
    /\ SetWorld(call(World, t).w)
    /\ UNCHANGED <<static, logvars>>

\* the driver calls t.addDep(d)
AddDep(t, d) ==
    /\ d < t
    /\ isIdle(World, t) => Len(deps[t]) < MaxDeps
    /\ SetWorld(addDep(World, t, d).w)
    /\ UNCHANGED <<static, logvars>>

\* the running executor of t calls the completion callback with v
Complete(t, v) ==
    /\ fn[t] = "free"
    /\ cb[t] # NoPromise
    /\ Len(calls[t]) < MaxCalls
    /\ SetWorld(resolveCb(NoteCall(World, t, "complete", v), t, cb[t], v))
    /\ UNCHANGED <<static, logvars>>

\* the running executor of t calls the failure callback with its error
Fail(t) ==
    /\ fn[t] = "free"
    /\ cb[t] # NoPromise
    /\ Len(calls[t]) < MaxCalls
    /\ SetWorld(rejectCb(NoteCall(World, t, "fail", ErrorOf(t)), t, cb[t], ErrorOf(t)))
    /\ UNCHANGED <<static, logvars>>

\* the platform runs the oldest promise job
Job ==
    /\ jobs # <<>>
    /\ SetWorld(RunJob([World EXCEPT !.jobs = Tail(@)], Head(jobs)))
    /\ UNCHANGED <<static, logvars>>

Next ==
    \/ \E t \in Tasks : Invoke(t)
    \/ \E t \in Tasks, d \in Tasks : AddDep(t, d)
    \/ \E t \in Tasks, v \in Values : Complete(t, v)
    \/ \E t \in Tasks : Fail(t)
    \/ Job

Spec == Init /\ [][Next]_vars

\* ---- graphs with cycles --------------------------------------------------
\* the driver calls t.addDep(d) for any two tasks, t itself included
AddDepAny(t, d) ==
    /\ isIdle(World, t) => Len(deps[t]) < MaxDeps
    /\ SetWorld(addDep(World, t, d).w)
    /\ UNCHANGED <<static, logvars>>

\* tasks created without dependencies; the executors complete or fail at once
InitCycle ==
    /\ Init
    /\ deps = [t \in Tasks |-> <<>>]
    /\ fn \in [Tasks -> {"default", "failing"}]

NextCycle ==
    \/ \E t \in Tasks : Invoke(t)
    \/ \E t \in Tasks, d \in Tasks : AddDepAny(t, d)
    \/ Job

SpecCycle == InitCycle /\ [][NextCycle]_vars

\* ---- executors that invoke their own task ----------------------------------
InitReenter ==
    /\ deps \in [Tasks -> SeqsUpTo(Tasks, MaxDeps)]
    /\ \A t \in Tasks : NoRepeat(deps[t]) /\ \A i \in 1..Len(deps[t]) : deps[t][i] < t
    /\ fn \in [Tasks -> {"default", "reenter"}]
    /\ state = [t \in Tasks |-> IDLE]
    /\ resolved = [t \in Tasks |-> Null]
    /\ promise = [t \in Tasks |-> NoPromise]
    /\ heap = <<>>
    /\ jobs = <<>>
    /\ cb = [t \in Tasks |-> NoPromise]
    /\ execCount = [t \in Tasks |-> 0]
    /\ returned = [t \in Tasks |-> {}]
    /\ calls = [t \in Tasks |-> <<>>]
    /\ preRej = [t \in Tasks |-> <<>>]
    /\ rejOrder = <<>>
    /\ displayName = [t \in Tasks |-> "build"]
    /\ prompt = [t \in Tasks |-> "none"]
    /\ viaLogger = FALSE
    /\ LoggerInit

NextReenter ==
    \/ \E t \in Tasks : Invoke(t)
    \/ Job

SpecReenter == InitReenter /\ [][NextReenter]_vars

\* ---- executors that throw --------------------------------------------------
InitThrow ==
    /\ deps \in [Tasks -> SeqsUpTo(Tasks, MaxDeps)]
    /\ \A t \in Tasks : NoRepeat(deps[t]) /\ \A i \in 1..Len(deps[t]) : deps[t][i] < t
    /\ fn \in [Tasks -> {"default", "free", "throwing"}]
    /\ state = [t \in Tasks |-> IDLE]
    /\ resolved = [t \in Tasks |-> Null]
    /\ promise = [t \in Tasks |-> NoPromise]
    /\ heap = <<>>
    /\ jobs = <<>>
    /\ cb = [t \in Tasks |-> NoPromise]
    /\ execCount = [t \in Tasks |-> 0]
    /\ returned = [t \in Tasks |-> {}]
    /\ calls = [t \in Tasks |-> <<>>]
    /\ preRej = [t \in Tasks |-> <<>>]
    /\ rejOrder = <<>>
    /\ displayName = [t \in Tasks |-> "build"]
    /\ prompt = [t \in Tasks |-> "none"]
    /\ viaLogger = FALSE
    /\ LoggerInit

NextThrow ==
    \/ \E t \in Tasks : Invoke(t)
    \/ \E t \in Tasks, v \in Values : Complete(t, v)
    \/ Job

SpecThrow == InitThrow /\ [][NextThrow]_vars

\* ---- the logger on its own -----------------------------------------------
\* the argument of the next write call: the calls are numbered, so that every
\* record can be told from every other
NextArg == written + 1

\* no task exists; the callers of the logger are the actions below
InitLogger ==
    /\ deps = [t \in Tasks |-> <<>>]
    /\ fn = [t \in Tasks |-> "default"]
    /\ state = [t \in Tasks |-> IDLE]
    /\ resolved = [t \in Tasks |-> Null]
    /\ promise = [t \in Tasks |-> NoPromise]
    /\ heap = <<>>
    /\ jobs = <<>>
    /\ cb = [t \in Tasks |-> NoPromise]
    /\ execCount = [t \in Tasks |-> 0]
    /\ returned = [t \in Tasks |-> {}]
    /\ calls = [t \in Tasks |-> <<>>]
    /\ preRej = [t \in Tasks |-> <<>>]
    /\ rejOrder = <<>>
    /\ displayName = [t \in Tasks |-> NoTask]
    /\ prompt = [t \in Tasks |-> "none"]
    /\ viaLogger = FALSE
    /\ LoggerInit

\* suppress(buffer)
Suppress(b) ==
    /\ SetLogger(suppress(Logger, b))
    /\ run' = IF b THEN [phase |-> "buffering", recs |-> <<>>] ELSE NoRun
    /\ UNCHANGED <<written, taskvars>>

\* unsuppress(flush)
Unsuppress(fl) ==
    /\ SetLogger(unsuppress(Logger, fl))
    /\ run' = IF fl /\ run.phase = "buffering"
              THEN [run EXCEPT !.phase = "flushed"]
              ELSE NoRun
    /\ UNCHANGED <<written, taskvars>>

\* log, debug, error or warn (or do with that method tag)
Routed(m) ==
    /\ written < MaxWrites
    /\ SetLogger(routed(Logger, m, NextArg))
    /\ written' = NextArg
    /\ run' = IF run.phase = "buffering"
              THEN [run EXCEPT !.recs = Append(@, Rec(m, NextArg))]
              ELSE NoRun
    /\ UNCHANGED taskvars

\* _log, _debug, _error or _warn
Direct(m) ==
    /\ written < MaxWrites
    /\ SetLogger(direct(Logger, m, NextArg))
    /\ written' = NextArg
    /\ run' = NoRun
    /\ UNCHANGED taskvars

\* buffer(method, ...args), called by the user of the logger
Buffer(m) ==
    /\ written < MaxWrites
    /\ SetLogger(buffer(Logger, m, NextArg))
    /\ written' = NextArg
    /\ run' = NoRun
    /\ UNCHANGED taskvars

Unbuffer ==
    /\ SetLogger(unbuffer(Logger).L)
    /\ run' = NoRun
    /\ UNCHANGED <<written, taskvars>>

Flush ==
    /\ SetLogger(flush(Logger).L)
    /\ run' = NoRun
    /\ UNCHANGED <<written, taskvars>>

ClearBuffers ==
    /\ SetLogger(clearBuffers(Logger))
    /\ run' = NoRun
    /\ UNCHANGED <<written, taskvars>>

NextLogger ==
    \/ \E b \in BOOLEAN : Suppress(b)
    \/ \E fl \in BOOLEAN : Unsuppress(fl)
    \/ \E m \in Methods : Routed(m)
    \/ \E m \in Methods : Direct(m)
    \/ \E m \in Methods : Buffer(m)
    \/ Unbuffer
    \/ Flush
    \/ ClearBuffers

SpecLogger == InitLogger /\ [][NextLogger]_vars

\* the callers use suppress, unsuppress, flush and the routed writes only
NextRouted ==
    \/ \E b \in BOOLEAN : Suppress(b)
    \/ \E fl \in BOOLEAN : Unsuppress(fl)
    \/ \E m \in Methods : Routed(m)
    \/ Flush

SpecRouted == InitLogger /\ [][NextRouted]_vars

\* ---- tasks created one by one -------------------------------------------
Created(t) == displayName[t] # NoTask

\* the argument lists flexParams has a pattern for, for the task t: the
\* dependencies are tasks that exist already
CtorArgs(t) ==
    LET Ds == {ds \in SeqsUpTo(1..(t - 1), MaxDeps) : NoRepeat(ds)}
    IN {<<FnArg(k)>> : k \in GivenFns}
       \cup {<<FnArg(k), ArrArg(ds)>> : k \in GivenFns, ds \in Ds}
       \cup {<<ArrArg(ds)>> : ds \in Ds}
       \cup {<<ArrArg(ds), FnArg(k)>> : ds \in Ds, k \in GivenFns}

\* before the driver has created anything
InitNew ==
    /\ deps = [t \in Tasks |-> <<>>]
    /\ fn = [t \in Tasks |-> "default"]
    /\ state = [t \in Tasks |-> IDLE]
    /\ resolved = [t \in Tasks |-> Null]
    /\ promise = [t \in Tasks |-> NoPromise]
    /\ heap = <<>>
    /\ jobs = <<>>
    /\ cb = [t \in Tasks |-> NoPromise]
    /\ execCount = [t \in Tasks |-> 0]
    /\ returned = [t \in Tasks |-> {}]
    /\ calls = [t \in Tasks |-> <<>>]
    /\ preRej = [t \in Tasks |-> <<>>]
    /\ rejOrder = <<>>
    /\ displayName = [t \in Tasks |-> NoTask]
    /\ prompt = [t \in Tasks |-> "none"]
    /\ viaLogger = FALSE
    /\ LoggerInit

\* the driver runs new Task(name, ...args); the tasks are numbered in the
\* order of their creation
NewTask(t, name, args) ==
    /\ ~Created(t)
    /\ \A u \in 1..(t - 1) : Created(u)
    /\ LET r == construct(name, args)
       IN /\ displayName' = [displayName EXCEPT ![t] = r.displayName]
          /\ fn' = [fn EXCEPT ![t] = r.fn]
          /\ deps' = [deps EXCEPT ![t] = r.deps]
    /\ state' = [state EXCEPT ![t] = IDLE]
    /\ resolved' = [resolved EXCEPT ![t] = Null]
    /\ promise' = [promise EXCEPT ![t] = NoPromise]
    /\ UNCHANGED <<heap, jobs, cb, execCount, returned, calls, preRej, rejOrder,
                   prompt, viaLogger, logvars>>

NextNew ==
    \/ \E t \in Tasks, name \in Names : \E args \in CtorArgs(t) : NewTask(t, name, args)
    \/ \E t \in Tasks : Created(t) /\ Invoke(t)
    \/ \E t \in Tasks, v \in Values : Complete(t, v)
    \/ \E t \in Tasks : Fail(t)
    \/ Job

SpecNew == InitNew /\ [][NextNew]_vars

\* ---- the driver: its tasks, their prompts and the logger ------------------
\* the tasks of the driver that take part in building the sketch
ResolveSketch == 1
CleanApp == 2
BuildSketchRollup == 3
\* what the callbacks are called with: the path of the sketch chosen, the
\* paths that were deleted, the event the bundler ends with
SketchPath == 41
DeletedPaths == 42
EndEvent == 42

\* resolve:sketch asks which sketch to build, clean:app asks before it
\* deletes, build:sketch:rollup depends on resolve:sketch; either revision
\* of the Task module may be the one in use
InitDriver ==
    /\ deps = [t \in Tasks |-> IF t = BuildSketchRollup THEN <<ResolveSketch>>
                                ELSE <<>>]
    /\ fn = [t \in Tasks |-> CASE t = ResolveSketch -> "select"
                               [] t = CleanApp -> "confirm"
                               [] OTHER -> "free"]
    /\ state = [t \in Tasks |-> IDLE]
    /\ resolved = [t \in Tasks |-> Null]
    /\ promise = [t \in Tasks |-> NoPromise]
    /\ heap = <<>>
    /\ jobs = <<>>
    /\ cb = [t \in Tasks |-> NoPromise]
    /\ execCount = [t \in Tasks |-> 0]
    /\ returned = [t \in Tasks |-> {}]
    /\ calls = [t \in Tasks |-> <<>>]
    /\ preRej = [t \in Tasks |-> <<>>]
    /\ rejOrder = <<>>
    /\ displayName = [t \in Tasks |-> "build"]
    /\ prompt = [t \in Tasks |-> "none"]
    /\ viaLogger \in BOOLEAN
    /\ LoggerInit

\* the option to clean first: build:sketch:rollup depends on clean:app too
CleanOption == AddDep(BuildSketchRollup, CleanApp)

\* the driver invokes a task
InvokeD(t) ==
    /\ SetWorldL(call(World, t).w)
    /\ UNCHANGED <<static, written, run>>

\* the platform runs the oldest promise job
JobD ==
    /\ jobs # <<>>
    /\ SetWorldL(RunJob([World EXCEPT !.jobs = Tail(@)], Head(jobs)))
    /\ UNCHANGED <<static, written, run>>

\* the bundler reports END: the executor calls the completion callback
CompleteD(t) ==
    /\ fn[t] = "free"
    /\ cb[t] # NoPromise
    /\ Len(calls[t]) < MaxCalls
    /\ SetWorldL(resolveCb(NoteCall(World, t, "complete", EndEvent), t, cb[t],
                           EndEvent))
    /\ UNCHANGED <<static, written, run>>

\* the bundler reports ERROR: the executor calls the failure callback
FailD(t) ==
    /\ fn[t] = "free"
    /\ cb[t] # NoPromise
    /\ Len(calls[t]) < MaxCalls
    /\ SetWorldL(rejectCb(NoteCall(World, t, "fail", ErrorOf(t)), t, cb[t],
                          ErrorOf(t)))
    /\ UNCHANGED <<static, written, run>>

\* the user answers the prompt of t: unsuppress(), then the sketch chosen
\* completes resolve:sketch, "no" fails clean:app and "yes" starts deleting
Answer(t, yes) ==
    /\ prompt[t] = "open"
    /\ fn[t] = "select" => yes
    /\ LET w1 == [World EXCEPT !.L = unsuppress(@, TRUE)]
       IN SetWorldL(
            CASE fn[t] = "select" ->
                   resolveCb(NoteCall([w1 EXCEPT !.prompt[t] = "closed"],
                                      t, "complete", SketchPath),
                             t, cb[t], SketchPath)
              [] fn[t] = "confirm" /\ yes -> [w1 EXCEPT !.prompt[t] = "deleting"]
              [] fn[t] = "confirm" /\ ~yes ->
                   rejectCb(NoteCall([w1 EXCEPT !.prompt[t] = "closed"],
                                     t, "fail", ErrorOf(t)), t, cb[t], ErrorOf(t)))
    /\ UNCHANGED <<static, written, run>>

\* del(...).then(resolve).catch(reject): the deletion ends
Deleted(t, ok) ==
    /\ prompt[t] = "deleting"
    /\ LET w1 == [World EXCEPT !.prompt[t] = "closed"]
       IN SetWorldL(IF ok
                    THEN resolveCb(NoteCall(w1, t, "complete", DeletedPaths),
                                   t, cb[t], DeletedPaths)
                    ELSE rejectCb(NoteCall(w1, t, "fail", ErrorOf(t)), t, cb[t],
                                  ErrorOf(t)))
    /\ UNCHANGED <<static, written, run>>

\* the prompt of t fails: the executor has no handler for that
PromptFails(t) ==
    /\ prompt[t] = "open"
    /\ prompt' = [prompt EXCEPT ![t] = "failed"]
    /\ UNCHANGED <<deps, fn, state, resolved, promise, heap, jobs, cb, execCount,
                   returned, calls, preRej, rejOrder, displayName, viaLogger,
                   logvars>>

\* handleError(err): logger.suppress(), then logger._error(message)
handleError(L, err) == _error(suppress(L, FALSE), err)

\* an error message is on the console: handleError has run
Handled == \E i \in 1..Len(console) : console[i].args \in Errors

\* commands[cmd]().catch(err => handleError(err)): the handle of the
\* command t has rejected
HandleError(t) ==
    /\ promise[t] # NoPromise
    /\ heap[promise[t]].st = "rejected"
    /\ \A u \in Tasks : \A i \in 1..Len(deps[u]) : deps[u][i] # t
    /\ ~Handled
    /\ SetLogger(handleError(Logger, heap[promise[t]].val))
    /\ UNCHANGED <<written, run, taskvars>>

\* a component of the driver writes through the logger
Write(m) ==
    /\ written < MaxWrites
    /\ SetLogger(routed(Logger, m, NextArg))
    /\ written' = NextArg
    /\ UNCHANGED <<run, taskvars>>

NextDriver ==
    \/ CleanOption
    \/ \E t \in Tasks : InvokeD(t)
    \/ JobD
    \/ \E t \in Tasks : CompleteD(t)
    \/ \E t \in Tasks : FailD(t)
    \/ \E t \in Tasks, yes \in BOOLEAN : Answer(t, yes)
    \/ \E t \in Tasks, ok \in BOOLEAN : Deleted(t, ok)
    \/ \E t \in Tasks : PromptFails(t)
    \/ \E t \in Tasks : HandleError(t)
    \/ Write("log")

SpecDriver == InitDriver /\ [][NextDriver]_vars

\* ---- the build command with the clean option -------------------------------
\* the other tasks of the build command
ResolveTheme == 4
BuildSketch == 5
BuildTheme == 6
BuildP5 == 7
Build == 8
BuildTasks ==
    {ResolveSketch, CleanApp, BuildSketchRollup, ResolveTheme, BuildSketch,
     BuildTheme, BuildP5, Build}
\* the tasks whose executors write into the app directory
Builders == {BuildSketchRollup, BuildTheme, BuildP5}

\* the dependency lists as the driver declares them, each builder with
\* addDep(cleanApp) after its creation
BuildDeps ==
    [t \in BuildTasks |->
        CASE t = BuildSketchRollup -> <<ResolveSketch, CleanApp>>
          [] t = BuildSketch -> <<BuildSketchRollup>>
          [] t = BuildTheme -> <<ResolveTheme, CleanApp>>
          [] t = BuildP5 -> <<CleanApp>>
          [] t = Build -> <<BuildSketch, BuildTheme, BuildP5>>
          [] OTHER -> <<>>]

\* the sketch and the theme are found or not; the deletion, the bundler and
\* the file copies call back when they end; build and build:sketch have no
\* executor of their own
InitBuild ==
    /\ deps = BuildDeps
    /\ fn \in [BuildTasks -> {"default", "failing", "free"}]
    /\ \A t \in {ResolveSketch, ResolveTheme} : fn[t] \in {"default", "failing"}
    /\ \A t \in Builders \cup {CleanApp} : fn[t] = "free"
    /\ \A t \in {BuildSketch, Build} : fn[t] = "default"
    /\ state = [t \in BuildTasks |-> IDLE]
    /\ resolved = [t \in BuildTasks |-> Null]
    /\ promise = [t \in BuildTasks |-> NoPromise]
    /\ heap = <<>>
    /\ jobs = <<>>
    /\ cb = [t \in BuildTasks |-> NoPromise]
    /\ execCount = [t \in BuildTasks |-> 0]
    /\ returned = [t \in BuildTasks |-> {}]
    /\ calls = [t \in BuildTasks |-> <<>>]
    /\ preRej = [t \in BuildTasks |-> <<>>]
    /\ rejOrder = <<>>
    /\ displayName = [t \in BuildTasks |-> "build"]
    /\ prompt = [t \in BuildTasks |-> "none"]
    /\ viaLogger = FALSE
    /\ LoggerInit

\* commands[cmd]() with cmd = build
RunBuild == InvokeD(Build)

\* the deletion, the bundle or the copy of t ends: .then(resolve),
\* .on('end', resolve)
Ends(t) ==
    /\ calls[t] = <<>>
    /\ CompleteD(t)

\* the deletion or the bundle of t fails: .catch(reject)
Breaks(t) ==
    /\ calls[t] = <<>>
    /\ FailD(t)

NextBuild ==
    \/ RunBuild
    \/ \E t \in BuildTasks : Ends(t)
    \/ \E t \in BuildTasks : Breaks(t)
    \/ JobD

SpecBuild == InitBuild /\ [][NextBuild]_vars

\* ---- vocabulary of the properties ---------------------------------------
Invoked(t) == promise[t] # NoPromise
HandleSt(t) == IF Invoked(t) THEN heap[promise[t]].st ELSE "none"
HandleVal(t) == heap[promise[t]].val
Fulfilled(t) == HandleSt(t) = "fulfilled"
Rejected(t) == HandleSt(t) = "rejected"
DepSet(t) == {deps[t][i] : i \in 1..Len(deps[t])}
\* no promise job is waiting: every settlement has been passed on
Quiet == jobs = <<>>
CompleteArgs(t) == {calls[t][i].v : i \in {k \in 1..Len(calls[t]) : calls[t][k].k = "complete"}}
LastOf(s) == s[Len(s)]
CompleteSeq(t) == SelectSeq(calls[t], LAMBDA c : c.k = "complete")

\* C1: whatever invocations were made (by the driver, repeated, after
\* settlement, by several dependents), the executor body of a task has been
\* started at most once and all invocations returned one and the same handle,
\* the memoized _promise.
C1_ExecutorOnceSameHandle ==
    \A t \in Tasks :
        /\ execCount[t] <= 1
        /\ Cardinality(returned[t]) <= 1
        /\ returned[t] # {} => returned[t] = {promise[t]}

\* task 1 is a dependency of two invoked tasks, so it has been called at least
\* twice; it has completed and its executor ran once
C1_Witness ==
    /\ 1 \in DepSet(2) /\ 1 \in DepSet(3)
    /\ Invoked(2) /\ Invoked(3)
    /\ Fulfilled(1) /\ execCount[1] = 1
    /\ execCount[3] = 1

\* C2: a step that starts the executor of a task with dependencies is taken
\* in a state where every task of its dependency list is DONE.
C2_StartsAfterAllDepsDone ==
    [][\A t \in Tasks :
          (deps[t] # <<>> /\ execCount'[t] > execCount[t])
              => \A d \in DepSet(t) : state[d] = DONE]_vars

\* the executor of a task with two dependencies has started
C2_Witness ==
    \E t \in Tasks : Cardinality(DepSet(t)) = 2 /\ execCount[t] = 1

\* C3: when the handle of a dependency D1 of an invoked task P is rejected
\* with E and the handles of all other dependencies of P are fulfilled, then
\* P's executor has not been started, P's handle is not fulfilled, it is
\* rejected once the promise jobs have run, and it is rejected with E.
C3_FanInFailure ==
    \A P \in Tasks : \A D1 \in DepSet(P) :
        (/\ Invoked(P)
         /\ Rejected(D1)
         /\ \A D2 \in DepSet(P) \ {D1} : Fulfilled(D2))
        => /\ execCount[P] = 0
           /\ ~Fulfilled(P)
           /\ Quiet => Rejected(P)
           /\ Rejected(P) => HandleVal(P) = HandleVal(D1)

\* P = 3 has the dependencies 1 and 2, one rejected, the other fulfilled, and
\* P's handle is rejected
C3_Witness ==
    /\ DepSet(3) = {1, 2}
    /\ \E D1 \in {1, 2} : Rejected(D1) /\ \A D2 \in {1, 2} \ {D1} : Fulfilled(D2)
    /\ Rejected(3) /\ Quiet

\* C4: reading `resolved` throws while the task is IDLE or BUSY; once the
\* handle is fulfilled it returns the value the executor passed to the
\* completion callback (the value of its most recent call).
C4_ResolvedGuard ==
    \A t \in Tasks :
        /\ state[t] \in {IDLE, BUSY} => resolvedGet(World, t).threw
        /\ Fulfilled(t) =>
              /\ ~resolvedGet(World, t).threw
              /\ CompleteSeq(t) # <<>>
              /\ resolvedGet(World, t).val = LastOf(CompleteSeq(t)).v

\* a fulfilled task whose resolved value reads 42, beside a BUSY task
C4_Witness ==
    \E t, u \in Tasks :
        /\ Fulfilled(t) /\ resolvedGet(World, t).val = 42
        /\ state[u] = BUSY /\ resolvedGet(World, u).threw

\* C5: addDep on a task that has been invoked throws and leaves every
\* dependency list as it is; addDep on a task that has not been invoked
\* appends the dependency at the end of the task's list and leaves the task
\* IDLE.
C5_AddDepGuard ==
    \A t \in Tasks, d \in Tasks :
        LET r == addDep(World, t, d)
        IN IF returned[t] # {}
           THEN r.threw /\ r.w = World
           ELSE /\ ~r.threw
                /\ r.w.deps = [deps EXCEPT ![t] = Append(deps[t], d)]
                /\ r.w.state = state
                /\ state[t] = IDLE

\* a list that only addDep can build (the constructor lists have no
\* repetition), on a task that is DONE by now, and a failed task
C5_Witness ==
    /\ deps[3] = <<1, 1>> /\ state[3] = DONE
    /\ Rejected(2) /\ state[2] = BUSY /\ returned[2] # {}

\* C6: when the executor has called the failure callback (first with E) and
\* never the completion callback, the promise it settles is rejected with E,
\* the handle is never fulfilled and is rejected with E once the promise jobs
\* have run, the state is BUSY, and the invocations made so far have returned
\* that one handle with the executor started once.
C6_FailStaysBusy ==
    \A t \in Tasks :
        (calls[t] # <<>> /\ CompleteArgs(t) = {})
        => /\ heap[cb[t]].st = "rejected" /\ heap[cb[t]].val = calls[t][1].v
           /\ state[t] = BUSY
           /\ execCount[t] = 1
           /\ returned[t] = {promise[t]}
           /\ ~Fulfilled(t)
           /\ Quiet => Rejected(t)
           /\ Rejected(t) => HandleVal(t) = calls[t][1].v

\* a task with dependencies whose executor failed twice, its handle rejected
C6_Witness ==
    \E t \in Tasks :
        /\ deps[t] # <<>> /\ Len(calls[t]) = 2 /\ CompleteArgs(t) = {}
        /\ Rejected(t) /\ state[t] = BUSY

\* C7: no step lowers the state of a task (IDLE < BUSY < DONE), and no step
\* changes the state of a task that is DONE.
C7_StateMonotonic ==
    [][\A t \in Tasks :
          /\ state'[t] >= state[t]
          /\ state[t] = DONE => state'[t] = DONE]_vars

\* a DONE task whose executor called the failure callback after completing
C7_Witness ==
    \E t \in Tasks :
        /\ state[t] = DONE /\ Len(calls[t]) = 2
        /\ calls[t][1].k = "complete" /\ calls[t][2].k = "fail"
        /\ Cardinality(returned[t]) = 1

\* C8: the stored resolved value of a DONE task is the argument of the first
\* call of the completion callback (it is assigned once and not changed by a
\* later call), and equals the value a fulfilled handle holds.
C8_ResolvedAssignedOnce ==
    \A t \in Tasks :
        state[t] = DONE =>
            /\ resolved[t] = CompleteSeq(t)[1].v
            /\ Fulfilled(t) => resolved[t] = HandleVal(t)

\* C9: when the executor of B reads the resolved value of its dependency A,
\* the read succeeds and yields a value A's executor completed with (B
\* completes with that value plus one); if A completed with 42 only, a
\* fulfilled handle of B holds 43.
C9_ReadsDependencyValue ==
    \A B \in Tasks :
        (fn[B] = "plus1" /\ execCount[B] >= 1) =>
            LET A == Head(deps[B])
            IN /\ calls[B] # <<>>
               /\ calls[B][1].k = "complete"
               /\ \E v \in CompleteArgs(A) : calls[B][1].v = Plus1(v)
               /\ (CompleteArgs(A) = {42} /\ Fulfilled(B)) => HandleVal(B) = 43

\* B = 2 depends on [1], 1 completed with 42, the handle of B holds 43
C9_Witness ==
    /\ fn[2] = "plus1" /\ deps[2] = <<1>>
    /\ CompleteArgs(1) = {42}
    /\ Fulfilled(2) /\ HandleVal(2) = 43

\* the dependencies of P with a rejected handle, and the first of them in time
RejDeps(P) == {d \in DepSet(P) : Rejected(d)}
FirstInTime(P) ==
    rejOrder[CHOOSE i \in 1..Len(rejOrder) :
                /\ rejOrder[i] \in DepSet(P)
                /\ \A k \in 1..(i - 1) : rejOrder[k] \notin DepSet(P)]
\* the dependency whose error P passes on: the first in declaration order of
\* those already rejected when P's first invocation returned, else the first
\* in time
FirstSeen(P) == IF preRej[P] # <<>> THEN Head(preRej[P]) ELSE FirstInTime(P)

\* C10 as stated: when dependencies of an invoked task P have failed, P's
\* handle is rejected (once the promise jobs have run, whether or not other
\* dependencies are pending) with the error of the dependency that rejected
\* first in time.
C10_FirstInTimeWins ==
    \A P \in Tasks :
        (Invoked(P) /\ RejDeps(P) # {}) =>
            /\ Quiet => Rejected(P)
            /\ Rejected(P) => HandleVal(P) = HandleVal(FirstInTime(P))

\* C10 as amended: P's handle is rejected, without waiting for pending
\* dependencies, with the error of the first dependency in declaration order
\* among those already rejected when P's first invocation returned, and if
\* there was none, of the dependency that rejected first in time; later
\* outcomes of other dependencies do not change it.
C10_FirstSeenWins ==
    \A P \in Tasks :
        (Invoked(P) /\ RejDeps(P) # {}) =>
            /\ ~Fulfilled(P) /\ execCount[P] = 0
            /\ Quiet => Rejected(P)
            /\ Rejected(P) => HandleVal(P) = HandleVal(FirstSeen(P))

\* P = 3 is rejected with the error of 2, which failed first in time although
\* declared second, while no dependency had failed when P was invoked; and a
\* task rejected while a dependency of it is still pending is reachable too
C10_Witness ==
    /\ deps[3] = <<1, 2>> /\ preRej[3] = <<>>
    /\ rejOrder = <<2, 3, 1>>
    /\ Rejected(3) /\ HandleVal(3) = ErrorOf(2)

\* ---- a run in which every executor completes ----------------------------
\* the tasks reachable from the tasks of S over at most n dependency edges
RECURSIVE ReachN(_, _)
ReachN(S, n) ==
    IF n = 0 THEN S
    ELSE ReachN(S \cup UNION {DepSet(u) : u \in S}, n - 1)

\* the dependency graph reachable from the root r, r included
Reach(r) == ReachN({r}, NumTasks)

\* no executor is one that fails: each calls its completion callback, at once
\* ("default", "plus1") or at a later moment of its choice ("free")
InitLive ==
    /\ Init
    /\ \A t \in Tasks : fn[t] # "failing"

\* the first call of the completion callback by the started executor of t
FirstComplete(t) ==
    /\ calls[t] = <<>>
    /\ \E v \in Values : Complete(t, v)

NextLive ==
    \/ \E t \in Tasks : Invoke(t)
    \/ \E t \in Tasks, v \in Values : Complete(t, v)
    \/ Job

\* the platform runs every queued promise job, and every started executor
\* comes to call its completion callback
SpecLive ==
    /\ InitLive
    /\ [][NextLive]_vars
    /\ WF_vars(Job)
    /\ \A t \in Tasks : WF_vars(FirstComplete(t))

\* C11: in a finite acyclic graph in which every started executor eventually
\* calls its completion callback, an invoked root leads to a state where its
\* handle is fulfilled and every task reachable from it (shared dependencies
\* included) is DONE and has run its executor exactly once.
C11_RootEventuallyFulfilled ==
    \A r \in Tasks :
        Invoked(r) ~> (/\ Fulfilled(r)
                       /\ \A t \in Reach(r) : state[t] = DONE /\ execCount[t] = 1)

\* the root 3 depends on 1 and 2, and 2 depends on 1 as well: all three are
\* DONE, the root's handle is fulfilled, the shared task 1 ran once
C11_Witness ==
    /\ deps[3] = <<1, 2>> /\ deps[2] = <<1>>
    /\ Fulfilled(3)
    /\ \A t \in Tasks : state[t] = DONE /\ execCount[t] = 1
    /\ fn[1] = "free"

\* ---- failure through several levels -------------------------------------
\* the transitive dependencies of P, P excluded
TransDeps(P) == ReachN(DepSet(P), NumTasks)

\* the executor of t ran and the promise it was run for is rejected
OwnFailure(t) == cb[t] # NoPromise /\ heap[cb[t]].st = "rejected"

\* the first handle to reject, in time, among the transitive dependencies
FirstFailure(P) ==
    rejOrder[CHOOSE i \in 1..Len(rejOrder) :
                /\ rejOrder[i] \in TransDeps(P)
                /\ \A k \in 1..(i - 1) : rejOrder[k] \notin TransDeps(P)]

\* the task whose own failure a rejected P passes on: followed down through
\* the dependency each join took its error from
RECURSIVE OriginN(_, _)
OriginN(P, n) ==
    IF n = 0 \/ RejDeps(P) = {} THEN P ELSE OriginN(FirstSeen(P), n - 1)

Origin(P) == OriginN(P, NumTasks)

\* C12 as stated: whenever a transitive dependency of an invoked root has
\* failed, the root's handle rejects with the error of the first failure in
\* time, unchanged; the root never starts its executor and stays BUSY.
C12_FirstFailureReachesRoot ==
    \A P \in Tasks :
        (Invoked(P) /\ \E f \in TransDeps(P) : Rejected(f)) =>
            /\ execCount[P] = 0 /\ state[P] = BUSY
            /\ Quiet => Rejected(P)
            /\ Rejected(P) => HandleVal(P) = heap[cb[FirstFailure(P)]].val

\* C12, amended: a failure passes unchanged through any number of levels.
\* Every invoked task with a failed transitive dependency never starts its
\* executor, stays BUSY, is never fulfilled and is rejected once the jobs have
\* run; the error it is rejected with is the identical value E that the
\* executor of one task below it failed with, namely the task found by
\* following, at each join, the failure that join takes (the first declared
\* among the handles already rejected when the dependent was invoked, else
\* the first to reject in time).
C12_FailurePropagatesUnchanged ==
    \A P \in Tasks :
        (Invoked(P) /\ \E f \in TransDeps(P) : Rejected(f)) =>
            /\ execCount[P] = 0 /\ state[P] = BUSY
            /\ ~Fulfilled(P)
            /\ Quiet => Rejected(P)
            /\ Rejected(P) =>
                  /\ Origin(P) \in TransDeps(P)
                  /\ OwnFailure(Origin(P))
                  /\ calls[Origin(P)][1] = [k |-> "fail", v |-> HandleVal(P)]
                  /\ HandleVal(P) = ErrorOf(Origin(P))

\* two levels: 1 fails, 2 depends on 1, the root 3 depends on 2 only; the
\* root is rejected with the error of 1 and neither 2 nor 3 ever started
C12_Witness ==
    /\ deps[3] = <<2>> /\ deps[2] = <<1>>
    /\ OwnFailure(1)
    /\ Rejected(3) /\ HandleVal(3) = ErrorOf(1)
    /\ state[2] = BUSY /\ state[3] = BUSY
    /\ execCount[2] = 0 /\ execCount[3] = 0
    /\ Quiet

\* ---- creation -----------------------------------------------------------
\* the task t was created from a dependency list alone, without an executor
NoExecutorGiven(t) == Created(t) /\ fn[t] \notin GivenFns

\* C13: a task created with a name and a dependency list but no executor
\* has the executor that completes at once with no value.  It starts only
\* when all its dependencies are DONE; the step that starts it makes it DONE
\* with the stored value undefined; once the jobs have run after all its
\* dependencies completed, its handle is fulfilled with undefined; and its
\* handle is rejected exactly when the handle of a dependency is rejected.
C13_DefaultExecutor ==
    /\ \A name \in Names, ds \in SeqsUpTo(Tasks, MaxDeps) :
          construct(name, <<ArrArg(ds)>>) =
              [displayName |-> name, fn |-> "default", deps |-> ds]
    /\ \A t \in Tasks :
          NoExecutorGiven(t) =>
              /\ fn[t] = "default"
              /\ execCount[t] >= 1 =>
                    /\ state[t] = DONE /\ resolved[t] = Undefined
                    /\ calls[t] = <<[k |-> "complete", v |-> Undefined]>>
                    /\ \A d \in DepSet(t) : state[d] = DONE
              /\ execCount[t] = 0 => state[t] # DONE
              /\ Fulfilled(t) => HandleVal(t) = Undefined /\ state[t] = DONE
              /\ (Invoked(t) /\ Quiet /\ \A d \in DepSet(t) : Fulfilled(d))
                    => Fulfilled(t)
              /\ Rejected(t) => RejDeps(t) # {}
              /\ (Invoked(t) /\ Quiet /\ RejDeps(t) # {}) => Rejected(t)

\* task 3 was created as new Task(name, [1, 2]); both dependencies completed
\* with a value and 3 is DONE, fulfilled with undefined
C13_Witness ==
    /\ NoExecutorGiven(3) /\ deps[3] = <<1, 2>>
    /\ CompleteArgs(1) = {41} /\ CompleteArgs(2) = {42}
    /\ Fulfilled(3) /\ HandleVal(3) = Undefined
    /\ state[3] = DONE /\ resolved[3] = Undefined

\* C14: creating a task fails, and creates no task, when the name is empty:
\* no task that exists has the empty name.
C14_NoTaskWithEmptyName ==
    \A t \in Tasks : Created(t) => displayName[t] # ""

\* ---- cycles -------------------------------------------------------------
\* t depends on itself, directly or through other tasks
OnCycle(t) == t \in TransDeps(t)

LastN(s, n) == SubSeq(s, Len(s) - n + 1, Len(s))
\* how many entries of the sequence s equal x
Count(s, x) == Cardinality({i \in 1..Len(s) : s[i] = x})

\* C16: a routed write (log, debug, error, warn, do) with method tag m
\* writes the record to the console at once and leaves the buffer alone in
\* NORMAL mode, writes and keeps nothing in SILENT mode, and in BUFFER mode
\* writes nothing and appends exactly the one record (tag and arguments) at
\* the end of the buffer; it never changes the mode.
C16_RoutedWrite ==
    \A m \in Methods :
        LET r == routed(Logger, m, NextArg)
        IN /\ r = do(Logger, m, NextArg)
           /\ r.mode = mode
           /\ mode = NORMAL => /\ r.console = Append(console, Rec(m, NextArg))
                               /\ r.buffers = buffers
           /\ mode = SILENT => r.console = console /\ r.buffers = buffers
           /\ mode = BUFFER => /\ r.console = console
                               /\ r.buffers = Append(buffers, Rec(m, NextArg))

\* three writes were made: the first is on the console, the second is
\* nowhere, the third is the only record in the buffer
C16_Witness ==
    /\ written = 3 /\ mode = BUFFER
    /\ console = <<Rec("log", 1)>>
    /\ buffers = <<Rec("warn", 3)>>
    /\ run.recs = buffers

\* C17: after suppress(true) and any number of routed writes nothing of
\* them is on the console and they are the end of the buffer, in call order;
\* unsuppress(true) then writes each of them exactly once, in that order,
\* and leaves the mode NORMAL and the buffer empty, so that another
\* unsuppress(true) or flush writes nothing.
C17_BufferThenReplay ==
    /\ run.phase = "buffering" =>
          /\ mode = BUFFER
          /\ Len(buffers) >= Len(run.recs)
          /\ LastN(buffers, Len(run.recs)) = run.recs
          /\ \A i \in 1..Len(run.recs) : Count(console, run.recs[i]) = 0
          /\ LET L == unsuppress(Logger, TRUE)
             IN /\ L.mode = NORMAL /\ L.buffers = <<>>
                /\ L.console = console \o buffers
                /\ LastN(L.console, Len(run.recs)) = run.recs
                /\ \A i \in 1..Len(run.recs) : Count(L.console, run.recs[i]) = 1
    /\ run.phase = "flushed" =>
          /\ mode = NORMAL /\ buffers = <<>>
          /\ LastN(console, Len(run.recs)) = run.recs
          /\ \A i \in 1..Len(run.recs) : Count(console, run.recs[i]) = 1
          /\ unsuppress(Logger, TRUE) = Logger
          /\ flush(Logger) = [L |-> Logger, ret |-> "false"]

\* suppress(true), three routed writes, unsuppress(true): the console holds
\* the three records in the order of the calls
C17_Witness ==
    /\ run.phase = "flushed" /\ Len(run.recs) = 3
    /\ console = run.recs
    /\ console[1].args = 1 /\ console[2].args = 2 /\ console[3].args = 3
    /\ mode = NORMAL /\ buffers = <<>>

\* C18: unsuppress(false) sets the mode to NORMAL and discards the buffer.
C18_UnsuppressFalseDiscards ==
    LET L == unsuppress(Logger, FALSE)
    IN L.mode = NORMAL /\ L.buffers = <<>>

\* C19: flush on a non-empty buffer writes every buffered record once,
\* oldest first, and leaves the buffer empty; on an empty buffer it returns
\* false and changes nothing; in every mode it leaves the mode as it is.
C19_Flush ==
    LET r == flush(Logger)
    IN /\ r.L.mode = mode
       /\ buffers = <<>> => r = [L |-> Logger, ret |-> "false"]
       /\ buffers # <<>> =>
             /\ r.ret # "false"
             /\ r.L.console = console \o buffers
             /\ r.L.buffers = <<>>

\* two records are buffered while the mode is SILENT, and flush writes the
\* older one first and stays SILENT
C19_Witness ==
    /\ mode = SILENT /\ console = <<>>
    /\ buffers = <<Rec("error", 1), Rec("log", 2)>>
    /\ flush(Logger).L = [mode |-> SILENT, buffers |-> <<>>, console |-> buffers]

\* C20: unbuffer on a non-empty buffer removes the most recently added
\* record only and writes exactly that record, the earlier records stay in
\* their order; on an empty buffer it returns false and changes nothing; it
\* never changes the mode.
C20_Unbuffer ==
    LET r == unbuffer(Logger)
    IN /\ r.L.mode = mode
       /\ buffers = <<>> => r = [L |-> Logger, ret |-> "false"]
       /\ buffers # <<>> =>
             /\ r.ret # "false"
             /\ r.L.buffers = SubSeq(buffers, 1, Len(buffers) - 1)
             /\ r.L.console = Append(console, buffers[Len(buffers)])

\* three records are buffered, and unbuffer writes the third and leaves the
\* first two
C20_Witness ==
    /\ mode = BUFFER /\ console = <<>>
    /\ Len(buffers) = 3 /\ \A i \in 1..3 : buffers[i].args = i
    /\ unbuffer(Logger).L.console = <<buffers[3]>>
    /\ unbuffer(Logger).L.buffers = <<buffers[1], buffers[2]>>

\* C21: a direct write (_log, _debug, _error, _warn) writes its record to
\* the console at once in every mode, and leaves the mode and the buffer as
\* they are.
C21_DirectWrite ==
    \A m \in Methods :
        LET r == direct(Logger, m, NextArg)
        IN /\ r.console = Append(console, Rec(m, NextArg))
           /\ r.mode = mode
           /\ r.buffers = buffers

\* the mode is BUFFER, the first write is queued and the second is on the
\* console; a further direct write in this state reaches the console at once
C21_Witness ==
    /\ mode = BUFFER /\ written = 2
    /\ buffers = <<Rec("log", 1)>>
    /\ console = <<Rec("error", 2)>>
    /\ direct(Logger, "warn", NextArg).console = <<Rec("error", 2), Rec("warn", 3)>>

\* C22: suppress(false) sets SILENT and suppress(true) sets BUFFER, from any
\* mode; a second suppress with the same argument changes nothing; suppress
\* writes nothing and leaves the buffer as it is.
C22_Suppress ==
    \A b \in BOOLEAN :
        LET L1 == suppress(Logger, b)
        IN /\ L1.mode = (IF b THEN BUFFER ELSE SILENT)
           /\ suppress(L1, b) = L1
           /\ L1.console = console
           /\ L1.buffers = buffers

\* the mode is BUFFER with two records queued and one written: suppress(false)
\* goes to SILENT and keeps all of it
C22_Witness ==
    /\ mode = BUFFER /\ Len(buffers) = 2 /\ Len(console) = 1
    /\ suppress(Logger, FALSE) = [Logger EXCEPT !.mode = SILENT]
    /\ suppress(suppress(Logger, TRUE), TRUE) = Logger

\* ---- prompts, status lines and the logger ----------------------------------
\* the texts of the status lines of all tasks
StatusLines ==
    {StatusLine(t, k) : t \in Tasks, k \in {Resolving, AllResolved, Running, Resolved}}
\* the prompt of some task is waiting for input
Prompting == \E t \in Tasks : prompt[t] = "open"

\* C23: while a prompt is waiting for input, no routed write (a write of a
\* component of the driver through the logger, or a status line of the Task
\* module that requires the Logger) is written to the console; also when
\* two prompts are open and one of them is answered before the other.
C23_NoRoutedWriteWhilePrompting ==
    [][(\E t \in Tasks : prompt[t] = "open" /\ prompt'[t] = "open")
         => \A i \in (Len(console) + 1)..Len(console') :
               /\ console'[i].args \notin 1..written'
               /\ viaLogger => console'[i].args \notin StatusLines]_vars

\* C24: while the mode of the logger is SILENT or BUFFER, no status line of
\* a task is written to the console.
C24_StatusLinesAreRouted ==
    [][(mode # NORMAL /\ mode' # NORMAL)
         => \A i \in (Len(console) + 1)..Len(console') :
               console'[i].args \notin StatusLines]_vars

\* ---- calling a task object -------------------------------------------------
\* the argument lists a Callable object is called with
ArgLists == SeqsUpTo(Values \cup {Undefined}, 2)

C26_ReentrantCallIsMemoized ==
    \A t \in Tasks :
        fn[t] = "reenter" =>
            /\ execCount[t] <= 1
            /\ returned[t] \subseteq {promise[t]}

\* ---- the order in which dependencies are invoked --------------------------
\* the status line a task writes first when it leaves IDLE: "Resolving
\* dependencies" right after the state is set, or, without dependencies,
\* "is running" when its executor starts
FirstLine(d) ==
    IF deps[d] # <<>> THEN StatusLine(d, Resolving) ELSE StatusLine(d, Running)
\* the place of the first record with the text x in s, 0 when there is none
Pos(s, x) ==
    IF \E i \in 1..Len(s) : s[i].args = x
    THEN CHOOSE i \in 1..Len(s) : s[i].args = x /\ \A j \in 1..(i - 1) : s[j].args # x
    ELSE 0
\* what invoking t writes to the console
LinesOfCall(t) == call(World, t).w.L.console

\* C27: invoking an IDLE task with dependencies invokes them in declaration
\* order: of two neighbours of the list that are IDLE (the later one neither
\* listed before nor a dependency, direct or not, of an entry before it, so
\* that it is the loop that takes it out of IDLE), the earlier one leaves
\* IDLE (and starts its executor if it has no dependencies) before the later
\* one does; when the invocation returns every dependency has
\* been invoked, no promise job has run and the join has not yet seen any
\* of them complete.
C27_DepsInvokedInDeclarationOrder ==
    \A t \in Tasks :
        isIdle(World, t) /\ deps[t] # <<>> =>
            LET r == call(World, t)
                join == r.w.heap[<<t, "all", 1>>]
            IN /\ \A i \in 1..(Len(deps[t]) - 1) :
                     /\ isIdle(World, deps[t][i]) /\ isIdle(World, deps[t][i + 1])
                     /\ \A k \in 1..i : deps[t][i + 1] \notin Reach(deps[t][k])
                     =>
                         /\ 0 < Pos(LinesOfCall(t), FirstLine(deps[t][i]))
                         /\ Pos(LinesOfCall(t), FirstLine(deps[t][i]))
                               < Pos(LinesOfCall(t), FirstLine(deps[t][i + 1]))
               /\ \A i \in 1..Len(deps[t]) :
                     /\ r.w.state[deps[t][i]] # IDLE
                     /\ r.w.promise[deps[t][i]] # NoPromise
               /\ join.st = "pending" /\ join.remaining = Len(deps[t])
               /\ SubSeq(r.w.jobs, 1, Len(jobs)) = jobs

\* task 3 is IDLE and lists task 2 before task 1, both IDLE and without
\* dependencies: invoking it starts the executor of 2, then that of 1
C27_Witness ==
    /\ deps[3] = <<2, 1>> /\ deps[2] = <<>> /\ deps[1] = <<>>
    /\ fn[2] = "free" /\ fn[1] = "free"
    /\ \A t \in 1..3 : isIdle(World, t)
    /\ [i \in 1..Len(LinesOfCall(3)) |-> LinesOfCall(3)[i].args]
         = <<StatusLine(3, Resolving), StatusLine(2, Running), StatusLine(1, Running)>>

\* ---- the graph below an invoked root ---------------------------------------
\* C28: once an invocation of a task has returned, the task and every task
\* reachable from it through dependency lists is not IDLE and has a handle,
\* and addDep on any of them throws and changes nothing.
C28_ReachableTasksLeftIdle ==
    \A r \in Tasks :
        returned[r] # {} =>
            \A u \in Reach(r) :
                /\ state[u] # IDLE
                /\ promise[u] # NoPromise
                /\ \A d \in Tasks :
                      /\ addDep(World, u, d).threw
                      /\ addDep(World, u, d).w = World

\* the root 3 was invoked; it reaches 1 only through 2, and the executor
\* of 1 is still running
C28_Witness ==
    /\ deps[3] = <<2>> /\ deps[2] = <<1>>
    /\ returned[3] # {} /\ returned[2] # {} /\ returned[1] # {}
    /\ Reach(3) = {1, 2, 3}
    /\ state[1] = BUSY /\ state[2] = BUSY /\ state[3] = BUSY
    /\ addDep(World, 2, 1).threw

\* ---- state and handle ------------------------------------------------------
\* C29: whenever no promise job is waiting, a task that is DONE has a
\* fulfilled handle and a task whose handle is rejected is BUSY, whatever
\* the order in which its executor called the completion and the failure
\* callback (which value the handle was fulfilled with is left aside).
C29_DoneIffHandleFulfilled ==
    Quiet =>
        \A t \in Tasks :
            /\ state[t] = DONE => Fulfilled(t)
            /\ Rejected(t) => state[t] = BUSY

\* ---- after a dependency has failed ----------------------------------------
\* the handle of P is rejected and the executor of P was not started: a
\* dependency of P failed
DepFailed(P) == deps[P] # <<>> /\ Rejected(P) /\ execCount[P] = 0

\* C30: once the handle of P is rejected because a dependency failed, every
\* step leaves P BUSY, its handle rejected with the same error (the error of
\* a task below P) and its executor not started, while each dependency of P
\* goes on: its executor is started at most once and a call of its
\* completion callback makes it DONE with the value passed.
C30_DependencyFailureCancelsNothing ==
    [][\A P \in Tasks :
          DepFailed(P) =>
              /\ state[P] = BUSY /\ state'[P] = BUSY
              /\ promise'[P] = promise[P]
              /\ heap'[promise[P]].st = "rejected"
              /\ heap'[promise[P]].val = HandleVal(P)
              /\ HandleVal(P) \in {ErrorOf(d) : d \in TransDeps(P)}
              /\ execCount'[P] = 0
              /\ \A D2 \in DepSet(P) :
                    /\ execCount'[D2] <= 1
                    /\ (/\ Len(calls'[D2]) > Len(calls[D2])
                        /\ LastOf(calls'[D2]).k = "complete")
                       => /\ state'[D2] = DONE
                          /\ resolved'[D2] = LastOf(calls'[D2]).v]_vars

\* the handle of 3 is rejected with the error of its dependency 1; its
\* other dependency 2 completed after that (the job that tells the join of
\* 3 is still waiting) and is DONE
C30_Witness ==
    /\ deps[3] = <<1, 2>>
    /\ DepFailed(3) /\ HandleVal(3) = ErrorOf(1) /\ state[3] = BUSY
    /\ state[2] = DONE /\ execCount[2] = 1 /\ calls[2] # <<>>
    /\ Len(jobs) = 1
    /\ jobs[1].st = "fulfilled" /\ jobs[1].reaction.kind = "allElem"

\* ---- the build command with the clean option -------------------------------
\* C31: clean:app is a dependency of the three builders; the build command
\* starts the executor of clean:app (the delete) exactly once, and no
\* builder's executor is started unless clean:app is DONE.
C31_CleanOnceBeforeBuilders ==
    /\ \A b \in Builders : CleanApp \in DepSet(b)
    /\ execCount[CleanApp] <= 1
    /\ returned[Build] # {} => execCount[CleanApp] = 1
    /\ \A b \in Builders : execCount[b] > 0 => state[CleanApp] = DONE

\* the build command ran, the delete ran once and ended, and the three
\* builders have started
C31_Witness ==
    /\ returned[Build] # {}
    /\ execCount[CleanApp] = 1 /\ state[CleanApp] = DONE
    /\ Cardinality(returned[CleanApp]) = 1
    /\ \A b \in Builders : execCount[b] = 1

\* ---- every record once, and in order ---------------------------------------
\* how many records of the sequence s carry the arguments x
CountArgs(s, x) == Cardinality({i \in 1..Len(s) : s[i].args = x})

\* C32: no write is on the console more than once, and none that is on the
\* console is still in the buffer to be written again; this holds for the
\* routed writes and for every other record as well.
C32_WrittenAtMostOnce ==
    \A x \in 1..written : CountArgs(console, x) + CountArgs(buffers, x) <= 1

\* write 1 was written at once; 2 and 3 were buffered, 3 was then written
\* by unbuffer and 2 by a flush; another flush writes nothing
C32_Witness ==
    /\ written = 3
    /\ [i \in 1..Len(console) |-> console[i].args] = <<1, 3, 2>>
    /\ buffers = <<>> /\ mode = NORMAL
    /\ flush(Logger).L.console = console
    /\ unsuppress(Logger, TRUE).console = console

\* C33: with suppress, unsuppress, flush and routed writes only, the records
\* on the console are in the order in which their writes were called.
C33_ConsoleInCallOrder ==
    \A i, j \in 1..Len(console) : i < j => console[i].args < console[j].args

\* C38: buffer(method, args) appends exactly the one record at the end of
\* the buffer in every mode, writes nothing and leaves the mode unchanged;
\* hasBuffer is true exactly when the buffer holds a record.
C38_Buffer ==
    /\ \A m \in Methods :
          LET r == buffer(Logger, m, NextArg)
          IN /\ r.buffers = Append(buffers, Rec(m, NextArg))
             /\ r.console = console
             /\ r.mode = mode
             /\ hasBuffer(r)
    /\ hasBuffer(Logger) <=> Len(buffers) >= 1

\* buffer was called in NORMAL mode with a record already kept from a
\* suppression: two records are in the buffer, nothing is on the console
C38_Witness ==
    /\ mode = NORMAL /\ written = 2 /\ console = <<>>
    /\ Len(buffers) = 2 /\ buffers[2].args = 2
    /\ hasBuffer(Logger)
    /\ buffer(Logger, "debug", NextArg).buffers[3] = Rec("debug", 3)

\* ---- the error handler and the end of a prompt -----------------------------
\* C34: handleError writes the error message once, and once it is written
\* no routed write and no record buffered before is written to the console
\* (a status line that the Task module writes with console.log is not a
\* routed write); also when a prompt opened before concludes afterwards.
C34_NothingAfterTheError ==
    [][/\ \A e \in Errors : CountArgs(console', e) <= 1
       /\ Handled =>
             \A i \in (Len(console) + 1)..Len(console') :
                 /\ console'[i].args \in StatusLines
                 /\ ~viaLogger]_vars

\* C35: the step in which the prompt of resolve:sketch concludes leaves the
\* logger in NORMAL mode with the buffered records written and the buffer
\* empty, and in it the executor calls one of its callbacks, which settles
\* the promise the executor was run for.
C35_PromptEndRestoresLogger ==
    [][\A t \in Tasks :
          (fn[t] = "select" /\ prompt[t] = "open" /\ prompt'[t] # "open") =>
              /\ mode' = NORMAL
              /\ buffers' = <<>>
              /\ Len(console') >= Len(console) + Len(buffers)
              /\ SubSeq(console', 1, Len(console) + Len(buffers)) = console \o buffers
              /\ Len(calls'[t]) = Len(calls[t]) + 1
              /\ heap'[cb[t]].st # "pending"]_vars

\* ---- the order of the status lines -----------------------------------------
\* the status lines of t that were written, in the order of writing
OwnLines(t) ==
    LET own == SelectSeq(console, LAMBDA r : r.args \in {StatusLine(t, k) : k \in 1..4})
    IN [i \in 1..Len(own) |-> own[i].args]
\* the four status lines of a task with dependencies
FourLines(t) ==
    <<StatusLine(t, Resolving), StatusLine(t, AllResolved),
      StatusLine(t, Running), StatusLine(t, Resolved)>>

\* C36: the status lines of a task with dependencies are written in the
\* order "Resolving dependencies", "All the dependencies resolved",
\* "running", "resolved", none of them twice, and all four when the task
\* has completed; the "resolved" line of each of its dependencies is
\* written before its "running" line.
C36_StatusLineOrder ==
    \A t \in BuildTasks :
        deps[t] # <<>> =>
            /\ Len(OwnLines(t)) <= 4
            /\ OwnLines(t) = SubSeq(FourLines(t), 1, Len(OwnLines(t)))
            /\ state[t] = DONE => OwnLines(t) = FourLines(t)
            /\ Pos(console, StatusLine(t, Running)) > 0 =>
                  \A d \in DepSet(t) :
                      /\ 0 < Pos(console, StatusLine(d, Resolved))
                      /\ Pos(console, StatusLine(d, Resolved))
                            < Pos(console, StatusLine(t, Running))

\* the build command has completed: every task wrote its lines, and build
\* wrote its "running" line after the "resolved" lines of the builders
C36_Witness ==
    /\ \A t \in BuildTasks : state[t] = DONE
    /\ OwnLines(Build) = FourLines(Build)
    /\ OwnLines(BuildSketchRollup) = FourLines(BuildSketchRollup)
    /\ Pos(console, StatusLine(BuildP5, Resolved))
          < Pos(console, StatusLine(Build, Running))
    /\ console[1].args = StatusLine(Build, Resolving)

\* ---- an executor that throws -----------------------------------------------
\* the dependencies of P whose handle is rejected
FailedDeps(P) == {d \in DepSet(P) : Rejected(d)}

\* C37: an invocation never throws because an executor throws; a task
\* whose executor threw stays BUSY and, once the promise jobs have run, its
\* handle is rejected with the thrown error; a task that depends on it is
\* then rejected as well, without its executor started, with the error of a
\* failed dependency, which is the thrown error when no other dependency
\* failed.
C37_ThrowRejectsTheHandle ==
    /\ \A t \in Tasks :
          /\ ~call(World, t).w.thrown
          /\ call(World, t).ret # NoPromise
    /\ \A t \in Tasks :
          (fn[t] = "throwing" /\ execCount[t] > 0) =>
              /\ state[t] = BUSY
              /\ heap[cb[t]].st = "rejected" /\ heap[cb[t]].val = ErrorOf(t)
              /\ Quiet => Rejected(t) /\ HandleVal(t) = ErrorOf(t)
              /\ \A P \in Tasks :
                    (Quiet /\ Invoked(P) /\ t \in DepSet(P)) =>
                        /\ Rejected(P) /\ execCount[P] = 0 /\ state[P] = BUSY
                        /\ HandleVal(P) \in {HandleVal(d) : d \in FailedDeps(P)}
                        /\ FailedDeps(P) = {t} => HandleVal(P) = ErrorOf(t)

\* task 2 waits for task 1 and then throws; task 3 depends on task 2 and is
\* rejected with the error task 2 threw
C37_Witness ==
    /\ deps[2] = <<1>> /\ deps[3] = <<2>>
    /\ fn[2] = "throwing" /\ execCount[2] = 1 /\ state[2] = BUSY
    /\ state[1] = DONE
    /\ Quiet
    /\ Rejected(2) /\ HandleVal(2) = ErrorOf(2)
    /\ Rejected(3) /\ HandleVal(3) = ErrorOf(2) /\ execCount[3] = 0

\* ---- what stays as it was created -------------------------------------------
\* C39: no step changes the name or the executor of a created task; the dependency
\* list of a task changes only by addDep appending one task while the task
\* is IDLE and has no handle, so invoking, completing and failing leave it
\* alone; the join created by the first invocation has one element for each
\* entry of the list.
C39_NameExecutorAndDepsStay ==
    [][\A t \in Tasks : Created(t) =>
             /\ displayName'[t] = displayName[t]
             /\ fn'[t] = fn[t]
             /\ deps'[t] # deps[t] =>
                   /\ state[t] = IDLE /\ promise[t] = NoPromise
                   /\ state'[t] = IDLE /\ promise'[t] = NoPromise
                   /\ \E d \in Tasks : deps'[t] = Append(deps[t], d)
             /\ (promise[t] = NoPromise /\ promise'[t] # NoPromise /\ deps[t] # <<>>) =>
                   /\ deps'[t] = deps[t]
                   /\ heap'[<<t, "all", 1>>].remaining = Len(deps[t])]_vars

\* task 3 got its second dependency by addDep, was invoked, failed and then
\* completed: its list is as it was when it was invoked
C39_Witness ==
    /\ deps[3] = <<2, 1>>
    /\ state[3] = DONE /\ fn[3] = "free" /\ displayName[3] = "build"
    /\ Len(calls[3]) = 2 /\ calls[3][1].k = "fail" /\ calls[3][2].k = "complete"
    /\ heap[<<3, "all", 1>>].remaining = 0

====
